---- MODULE Spec2Model ----
(***************************************************************************)
(* The search-parameter decoder of assets/shared/utils.ts.                 *)
(*                                                                         *)
(* A JavaScript string is a sequence of pieces; a raw parameter value is   *)
(* cut into pieces of one character each, so that the conversions that     *)
(* read characters (unary plus, the boolean literals) are computed from    *)
(* the characters, and string concatenation is \o.                         *)
(*                                                                         *)
(* A JavaScript value is a record with one field naming its type:          *)
(*   [num |-> n]     an integer number                                     *)
(*   [dec |-> <<m, e>>]  the number m * 10^e, e < 0, m not divisible by 10 *)
(*   [inf |-> s]     s * Infinity, s \in {1, -1}                           *)
(*   [nan |-> TRUE]  NaN                                                   *)
(*   [str |-> s]     a string                                              *)
(*   [bool |-> b]    a boolean                                             *)
(*   [arr |-> a]     an array, a sequence of values                        *)
(*   [undef |-> TRUE] undefined                                            *)
(*   [fn |-> name]   a function inherited from Object.prototype            *)
(* A plain object is a function from its own keys to values.               *)
(***************************************************************************)
EXTENDS Integers, Sequences, FiniteSets, TLC

VARIABLES schema, searchParams, pc, paramsArray, result, thrown

vars == <<schema, searchParams, pc, paramsArray, result, thrown>>

Undefined == [undef |-> TRUE]
NaN == [nan |-> TRUE]
Num(n) == [num |-> n]
StrV(s) == [str |-> s]
BoolV(b) == [bool |-> b]
ArrV(a) == [arr |-> a]

EmptyObject == [k \in {} |-> Undefined]

(***************************************************************************)
(* Unary plus on a string: ECMAScript StringToNumber.                      *)
(***************************************************************************)
DigitValue == [c \in {"0", "1", "2", "3", "4", "5", "6", "7", "8", "9"} |->
                 CASE c = "0" -> 0 [] c = "1" -> 1 [] c = "2" -> 2 [] c = "3" -> 3
                   [] c = "4" -> 4 [] c = "5" -> 5 [] c = "6" -> 6 [] c = "7" -> 7
                   [] c = "8" -> 8 [] c = "9" -> 9]

HexValue == [c \in {"a", "b", "c", "d", "e", "f", "A", "B", "C", "D", "E", "F"} |->
               CASE c \in {"a", "A"} -> 10 [] c \in {"b", "B"} -> 11
                 [] c \in {"c", "C"} -> 12 [] c \in {"d", "D"} -> 13
                 [] c \in {"e", "E"} -> 14 [] c \in {"f", "F"} -> 15]

DigitIn(c, radix) ==
    \/ c \in DOMAIN DigitValue /\ DigitValue[c] < radix
    \/ radix = 16 /\ c \in DOMAIN HexValue

DigitOf(c) == IF c \in DOMAIN DigitValue THEN DigitValue[c] ELSE HexValue[c]

AllDigits(s, radix) == \A i \in 1..Len(s) : DigitIn(s[i], radix)

RECURSIVE DigitsValue(_, _)
DigitsValue(s, radix) ==
    IF s = <<>> THEN 0
    ELSE DigitsValue(SubSeq(s, 1, Len(s) - 1), radix) * radix + DigitOf(s[Len(s)])

RECURSIVE Pow10(_)
Pow10(n) == IF n <= 0 THEN 1 ELSE 10 * Pow10(n - 1)

WhiteSpace == {" ", "\t", "\n", "\r"}

RECURSIVE TrimStart(_)
TrimStart(s) ==
    IF s # <<>> /\ Head(s) \in WhiteSpace THEN TrimStart(Tail(s)) ELSE s

RECURSIVE TrimEnd(_)
TrimEnd(s) ==
    IF s # <<>> /\ s[Len(s)] \in WhiteSpace
    THEN TrimEnd(SubSeq(s, 1, Len(s) - 1)) ELSE s

Trim(s) == TrimEnd(TrimStart(s))

\* index of the first piece of s that is in set, 0 when there is none
FirstIn(s, set) ==
    IF \E i \in 1..Len(s) : s[i] \in set
    THEN CHOOSE i \in 1..Len(s) : s[i] \in set /\ \A j \in 1..(i - 1) : s[j] \notin set
    ELSE 0

\* the number m * 10^e as a value
RECURSIVE Scaled(_, _)
Scaled(m, e) ==
    IF m = 0 THEN Num(0)
    ELSE IF e >= 0 THEN Num(m * Pow10(e))
    ELSE IF m % 10 = 0 THEN Scaled(m \div 10, e + 1)
    ELSE [dec |-> <<m, e>>]

Negate(v) ==
    IF "num" \in DOMAIN v THEN Num(0 - v.num)
    ELSE IF "dec" \in DOMAIN v THEN [dec |-> <<0 - v.dec[1], v.dec[2]>>]
    ELSE IF "inf" \in DOMAIN v THEN [inf |-> 0 - v.inf]
    ELSE v

\* ExponentPart without its e: an optional sign and at least one digit
ExponentOf(s) ==
    LET signed == s # <<>> /\ Head(s) \in {"+", "-"}
        digits == IF signed THEN Tail(s) ELSE s
    IN  IF digits = <<>> \/ ~AllDigits(digits, 10) THEN NaN
        ELSE IF signed /\ Head(s) = "-" THEN Num(0 - DigitsValue(digits, 10))
        ELSE Num(DigitsValue(digits, 10))

\* StrUnsignedDecimalLiteral
UnsignedDecimal(s) ==
    IF s = <<"I", "n", "f", "i", "n", "i", "t", "y">> THEN [inf |-> 1]
    ELSE
    LET ePos == FirstIn(s, {"e", "E"})
        mant == IF ePos = 0 THEN s ELSE SubSeq(s, 1, ePos - 1)
        expo == IF ePos = 0 THEN Num(0) ELSE ExponentOf(SubSeq(s, ePos + 1, Len(s)))
        dot  == FirstIn(mant, {"."})
        int  == IF dot = 0 THEN mant ELSE SubSeq(mant, 1, dot - 1)
        frac == IF dot = 0 THEN <<>> ELSE SubSeq(mant, dot + 1, Len(mant))
    IN  IF \/ expo = NaN
           \/ int \o frac = <<>>
           \/ ~AllDigits(int, 10)
           \/ ~AllDigits(frac, 10)
        THEN NaN
        ELSE Scaled(DigitsValue(int \o frac, 10), expo.num - Len(frac))

\* NonDecimalIntegerLiteral: 0x, 0o, 0b and their digits
RadixOf(s) ==
    IF Len(s) < 2 \/ s[1] # "0" THEN 0
    ELSE IF s[2] \in {"x", "X"} THEN 16
    ELSE IF s[2] \in {"o", "O"} THEN 8
    ELSE IF s[2] \in {"b", "B"} THEN 2
    ELSE 0

WithSign(negative, v) == IF negative THEN Negate(v) ELSE v

NonDecimal(digits, radix) ==
    IF digits # <<>> /\ AllDigits(digits, radix)
    THEN Num(DigitsValue(digits, radix)) ELSE NaN

StringToNumber(text) ==
    IF text = <<>> THEN Num(0)
    ELSE IF RadixOf(text) # 0 THEN NonDecimal(SubSeq(text, 3, Len(text)), RadixOf(text))
    ELSE WithSign(Head(text) = "-",
                  UnsignedDecimal(IF Head(text) \in {"+", "-"} THEN Tail(text) ELSE text))

ToNumber(str) == StringToNumber(Trim(str))

isNaN(v) == v = NaN

(***************************************************************************)
(* Scalar Converter.  ParsedData<T> is [error |-> message] or [data |-> v].*)
(***************************************************************************)
parseNumber(str) ==
    LET num == ToNumber(str)
    IN  IF isNaN(num) THEN [error |-> str \o <<" is NaN">>] ELSE [data |-> num]

parseBoolean(str) ==
    IF str = <<"t", "r", "u", "e">> THEN [data |-> BoolV(TRUE)]
    ELSE IF str = <<"f", "a", "l", "s", "e">> THEN [data |-> BoolV(FALSE)]
    ELSE [error |-> str \o <<" is not a boolean">>]

\* `if (x.error)`: the error is there and is no empty string
HasError(p) == "error" \in DOMAIN p /\ p.error # <<>>

\* parseFunction is the function from each string of values to its outcome
parseArray(values, parseFunction) ==
    LET numbers == [i \in 1..Len(values) |-> parseFunction[values[i]]]
        failed == {i \in 1..Len(values) : HasError(numbers[i])}
    IN  IF failed # {}
        THEN [error |-> numbers[CHOOSE i \in failed : \A j \in failed : i <= j].error]
        ELSE [data |-> ArrV([i \in 1..Len(values) |-> numbers[i].data])]


(***************************************************************************)
(* Schema descriptions: zod's classes, told apart by typeName as the code  *)
(* tells them apart by constructor and instanceof.  A shape is the         *)
(* sequence of its entries in declaration order, the order of `for in`.    *)
(***************************************************************************)
ZodNumber == [typeName |-> "ZodNumber"]
ZodNumberMin(n) == [typeName |-> "ZodNumber", min |-> n]
ZodBoolean == [typeName |-> "ZodBoolean"]
ZodString == [typeName |-> "ZodString"]
ZodEnum(vs) == [typeName |-> "ZodEnum", values |-> vs]
ZodArray(t) == [typeName |-> "ZodArray", type |-> t]
ZodOptional(t) == [typeName |-> "ZodOptional", innerType |-> t]
ZodDefault(t, d) == [typeName |-> "ZodDefault", innerType |-> t, defaultValue |-> d]
ZodObject(sh) == [typeName |-> "ZodObject", shape |-> sh]
ZodUnion(os) == [typeName |-> "ZodUnion", options |-> os]
Field(k, f) == [key |-> k, schema |-> f]

(***************************************************************************)
(* fieldSchema.safeParse(data) of zod 3, for the schema classes above:     *)
(* [success |-> TRUE, data |-> v] or [success |-> FALSE].                  *)
(***************************************************************************)
IsNumber(v) == DOMAIN v \in {{"num"}, {"dec"}, {"inf"}}

\* v >= n for a number value v and an integer n
NumberAtLeast(v, n) ==
    IF "num" \in DOMAIN v THEN v.num >= n
    ELSE IF "inf" \in DOMAIN v THEN v.inf = 1
    ELSE v.dec[1] >= n * Pow10(0 - v.dec[2])

Failure == [success |-> FALSE]
Success(v) == [success |-> TRUE, data |-> v]

RECURSIVE safeParse(_, _)
safeParse(fieldSchema, data) ==
    CASE fieldSchema.typeName = "ZodNumber" ->
           IF IsNumber(data)
              /\ ("min" \in DOMAIN fieldSchema => NumberAtLeast(data, fieldSchema.min))
           THEN Success(data) ELSE Failure
      [] fieldSchema.typeName = "ZodBoolean" ->
           IF "bool" \in DOMAIN data THEN Success(data) ELSE Failure
      [] fieldSchema.typeName = "ZodString" ->
           IF "str" \in DOMAIN data THEN Success(data) ELSE Failure
      [] fieldSchema.typeName = "ZodEnum" ->
           IF "str" \in DOMAIN data /\ data.str \in fieldSchema.values
           THEN Success(data) ELSE Failure
      [] fieldSchema.typeName = "ZodArray" ->
           IF "arr" \in DOMAIN data
              /\ \A i \in 1..Len(data.arr) : safeParse(fieldSchema.type, data.arr[i]).success
           THEN Success(ArrV([i \in 1..Len(data.arr) |->
                                safeParse(fieldSchema.type, data.arr[i]).data]))
           ELSE Failure
      [] fieldSchema.typeName = "ZodOptional" ->
           IF data = Undefined THEN Success(Undefined)
           ELSE safeParse(fieldSchema.innerType, data)
      [] fieldSchema.typeName = "ZodDefault" ->
           safeParse(fieldSchema.innerType,
                     IF data = Undefined THEN fieldSchema.defaultValue ELSE data)
      [] OTHER -> Failure

(***************************************************************************)
(* Property read on a plain object: an own property, else what             *)
(* Object.prototype gives, else undefined.  An own property of the         *)
(* parameter object is the sequence of the raw strings of its key.         *)
(***************************************************************************)
ObjectPrototypeMembers ==
    {"constructor", "toString", "toLocaleString", "valueOf", "hasOwnProperty",
     "isPrototypeOf", "propertyIsEnumerable", "__proto__"}

Get(obj, key) ==
    IF key \in DOMAIN obj THEN [arr |-> obj[key]]
    ELSE IF key \in ObjectPrototypeMembers THEN [fn |-> key]
    ELSE Undefined

Truthy(v) == v # Undefined

Put(obj, key, v) == [k \in DOMAIN obj \cup {key} |-> IF k = key THEN v ELSE obj[k]]

(***************************************************************************)
(* Field conversion.                                                       *)
(***************************************************************************)
getInnerType(fieldSchema) ==
    IF fieldSchema.typeName \in {"ZodOptional", "ZodDefault"}
    THEN fieldSchema.innerType
    ELSE fieldSchema

Strings(values) == {values[i] : i \in 1..Len(values)}

StringsOf(values) == ArrV([i \in 1..Len(values) |-> StrV(values[i])])

\* String(schema.constructor) is the text of the class; its name stands for it
parseValues(fieldSchema, values) ==
    CASE fieldSchema.typeName = "ZodNumber" -> parseNumber(values[1])
      [] fieldSchema.typeName = "ZodBoolean" -> parseBoolean(values[1])
      [] fieldSchema.typeName = "ZodString" -> [data |-> StrV(values[1])]
      [] fieldSchema.typeName = "ZodArray" ->
           LET elementSchema == fieldSchema.type
           IN  CASE elementSchema.typeName = "ZodNumber" -> parseArray(values, [s \in Strings(values) |-> parseNumber(s)])
                 [] elementSchema.typeName = "ZodBoolean" -> parseArray(values, [s \in Strings(values) |-> parseBoolean(s)])
                 [] elementSchema.typeName = "ZodString" -> [data |-> StringsOf(values)]
                 [] OTHER -> [error |-> <<"unsupported array element type ",
                                          elementSchema.typeName>>]
      [] OTHER -> [error |-> <<"unsupported type ", fieldSchema.typeName>>]

\* convertToRequiredType without the test of line 111: the first value is used
convertToRequiredType_FirstValue(values, fieldSchema) ==
    LET value == parseValues(getInnerType(fieldSchema), values)
    IN  IF HasError(value) /\ fieldSchema.typeName = "ZodDefault"
        THEN [data |-> Undefined]
        ELSE value

convertToRequiredType(values, fieldSchema) ==
    LET usedSchema == getInnerType(fieldSchema)
    IN  IF Len(values) > 1 /\ usedSchema.typeName # "ZodArray"
        THEN [error |-> <<"Multiple values for non-array field">>]
        ELSE LET value == parseValues(usedSchema, values)
             IN  IF HasError(value) /\ fieldSchema.typeName = "ZodDefault"
                 THEN [data |-> Undefined]
                 ELSE value

(***************************************************************************)
(* Shape Parser.  The field names of a shape are ordinary identifiers, no  *)
(* member names of Object.prototype, so paramsArray[key] is the array of   *)
(* the key or undefined.                                                   *)
(***************************************************************************)
getRequireds(shape) ==
    LET required == SelectSeq(shape, LAMBDA e :
                        e.schema.typeName \notin {"ZodDefault", "ZodOptional"})
    IN  [i \in 1..Len(required) |-> required[i].key]

\* lines 80 and 83: the field is set when the validator accepts the value
assignIfSuccess(parsed, key, res) ==
    [error |-> FALSE,
     parsed |-> IF res.success THEN Put(parsed, key, res.data) ELSE parsed]

\* lines 75-80: a conversion error leaves `parsed` as it is
afterConversion(parsed, entry, fieldData) ==
    IF HasError(fieldData)
    THEN [error |-> TRUE, parsed |-> parsed]
    ELSE assignIfSuccess(parsed, entry.key, safeParse(entry.schema, fieldData.data))

\* parseField with line 81 testing for ZodOptional: no default for an absent field
parseField_NoDefault(entry, params, parsed) ==
    IF Truthy(Get(params, entry.key))
    THEN afterConversion(parsed, entry,
             convertToRequiredType(Get(params, entry.key).arr, entry.schema))
    ELSE IF entry.schema.typeName = "ZodOptional"
    THEN assignIfSuccess(parsed, entry.key, safeParse(entry.schema, Undefined))
    ELSE [error |-> FALSE, parsed |-> parsed]

\* the body of the loop for one entry of the shape: whether the conversion of
\* the field failed, and `parsed` after it
parseField(entry, params, parsed) ==
    IF Truthy(Get(params, entry.key))
    THEN afterConversion(parsed, entry,
             convertToRequiredType(Get(params, entry.key).arr, entry.schema))
    ELSE IF entry.schema.typeName = "ZodDefault"
    THEN assignIfSuccess(parsed, entry.key, safeParse(entry.schema, Undefined))
    ELSE [error |-> FALSE, parsed |-> parsed]

\* the loop of parseShape from entry i on, with `parsed` as built so far
RECURSIVE parseShapeFrom(_, _, _, _, _)
parseShapeFrom(shape, params, isPartOfUnion, i, parsed) ==
    IF i > Len(shape) THEN parsed
    ELSE IF isPartOfUnion /\ parseField(shape[i], params, parsed).error
    THEN EmptyObject
    ELSE parseShapeFrom(shape, params, isPartOfUnion, i + 1,
                        parseField(shape[i], params, parsed).parsed)

parseShape(shape, params, isPartOfUnion) ==
    parseShapeFrom(shape, params, isPartOfUnion, 1, EmptyObject)

(***************************************************************************)
(* Schema Walker and Union Resolver: [threw |-> FALSE, data |-> mapping]   *)
(* or [threw |-> TRUE, error |-> message].                                 *)
(***************************************************************************)
Returned(v) == [threw |-> FALSE, data |-> v]
Threw(e) == [threw |-> TRUE, error |-> e]

\* matches with `some` for `every` at line 39
matches_Some(shape, params) ==
    \E i \in 1..Len(getRequireds(shape)) :
        getRequireds(shape)[i] \in DOMAIN parseShape(shape, params, TRUE)

\* lines 34-39: every required key is a key of the lenient result
matches(shape, params) ==
    \A i \in 1..Len(getRequireds(shape)) :
        getRequireds(shape)[i] \in DOMAIN parseShape(shape, params, TRUE)

\* the loop over the options from option i on
RECURSIVE resolveUnionFrom(_, _, _)
resolveUnionFrom(options, params, i) ==
    IF i > Len(options) THEN EmptyObject
    ELSE IF matches(options[i].shape, params)
    THEN parseShape(options[i].shape, params, TRUE)
    ELSE resolveUnionFrom(options, params, i + 1)

RECURSIVE processSchema(_, _)
processSchema(sch, params) ==
    IF sch.typeName = "ZodOptional" THEN processSchema(sch.innerType, params)
    ELSE IF sch.typeName = "ZodObject" THEN Returned(parseShape(sch.shape, params, FALSE))
    ELSE IF sch.typeName = "ZodUnion" THEN Returned(resolveUnionFrom(sch.options, params, 1))
    ELSE Threw(<<"Unsupported schema type">>)

(***************************************************************************)
(* Param Collector: the forEach over the (value, key) pairs in order.      *)
(* `params[key].push` of an inherited member is no function: a TypeError.  *)
(***************************************************************************)
RECURSIVE forEachFrom(_, _, _)
forEachFrom(pairs, i, params) ==
    IF i > Len(pairs) THEN [threw |-> FALSE, params |-> params]
    ELSE
    LET key == pairs[i][1]
        value == pairs[i][2]
        created == IF ~Truthy(Get(params, key)) THEN Put(params, key, <<>>) ELSE params
    IN  IF "arr" \in DOMAIN Get(created, key)
        THEN forEachFrom(pairs, i + 1, Put(created, key, Append(created[key], value)))
        ELSE Threw(<<"TypeError: params[key].push is not a function">>)

getAllParamsAsArrays(pairs) == forEachFrom(pairs, 1, EmptyObject)

(***************************************************************************)
(* The inputs.                                                             *)
(***************************************************************************)
MaxPairs == 3

RawValues ==
    {<<>>, <<"5">>, <<"6">>, <<"a", "b", "c">>, <<"t", "r", "u", "e">>}

SecondValues == {<<"5">>, <<"a", "b", "c">>}

Pairs ==
    ({"a"} \X RawValues) \cup ({"b"} \X SecondValues) \cup {<<"constructor", <<"5">>>>}

SearchParams == UNION {[1..n -> Pairs] : n \in 0..MaxPairs}

FieldSchemas ==
    {ZodNumber, ZodNumberMin(6), ZodBoolean, ZodString, ZodEnum({<<"a", "b", "c">>}),
     ZodArray(ZodString), ZodArray(ZodNumber), ZodArray(ZodBoolean),
     ZodArray(ZodEnum({<<"a", "b", "c">>})),
     ZodOptional(ZodNumber), ZodOptional(ZodArray(ZodString)),
     ZodDefault(ZodNumber, Num(0)), ZodDefault(ZodString, StrV(<<"x">>)),
     ZodOptional(ZodDefault(ZodNumber, Num(0))),
     ZodDefault(ZodOptional(ZodNumber), Num(0))}

SecondFields == {ZodString, ZodNumber, ZodDefault(ZodString, StrV(<<"x">>))}

Shapes ==
    {<<Field("a", f)>> : f \in FieldSchemas}
    \cup {<<Field("a", f), Field("b", g)>> : f \in FieldSchemas, g \in SecondFields}

Candidates ==
    {<<Field("a", ZodNumber)>>, <<Field("a", ZodString)>>,
     <<Field("a", ZodNumberMin(6))>>, <<Field("a", ZodOptional(ZodNumber))>>,
     <<Field("a", ZodDefault(ZodNumber, Num(0)))>>, <<Field("a", ZodArray(ZodNumber))>>,
     <<Field("b", ZodString)>>,
     <<Field("a", ZodNumber), Field("b", ZodString)>>,
     <<Field("a", ZodOptional(ZodNumber)), Field("b", ZodDefault(ZodString, StrV(<<"x">>)))>>}

Unions ==
    {ZodUnion(<<ZodObject(c)>>) : c \in Candidates}
    \cup {ZodUnion(<<ZodObject(c), ZodObject(d)>>) : c \in Candidates, d \in Candidates}
    \cup {ZodUnion(<<ZodObject(<<Field("a", ZodNumber)>>),
                     ZodObject(<<Field("a", ZodBoolean)>>),
                     ZodObject(<<Field("a", ZodString)>>)>>)}

Recognized == {ZodObject(sh) : sh \in Shapes} \cup Unions

Schemas ==
    Recognized
    \cup {ZodOptional(ZodObject(<<Field("a", ZodNumber), Field("b", ZodString)>>)),
          ZodOptional(ZodOptional(ZodUnion(<<ZodObject(<<Field("a", ZodNumber)>>),
                                             ZodObject(<<Field("b", ZodString)>>)>>)))}
    \cup {ZodString, ZodArray(ZodString), ZodOptional(ZodNumber)}

(***************************************************************************)
(* safeParseSearchParams(schema, searchParams): line 12, then line 13.     *)
(***************************************************************************)
Init ==
    /\ schema \in Schemas
    /\ searchParams \in SearchParams
    /\ pc = "start"
    /\ paramsArray = EmptyObject
    /\ result = EmptyObject
    /\ thrown = <<>>

GetAllParamsAsArrays ==
    /\ pc = "start"
    /\ LET r == getAllParamsAsArrays(searchParams)
       IN  IF r.threw
           THEN /\ pc' = "thrown"
                /\ thrown' = r.error
                /\ UNCHANGED paramsArray
           ELSE /\ pc' = "collected"
                /\ paramsArray' = r.params
                /\ UNCHANGED thrown
    /\ UNCHANGED <<schema, searchParams, result>>

ProcessSchema ==
    /\ pc = "collected"
    /\ LET r == processSchema(schema, paramsArray)
       IN  IF r.threw
           THEN /\ pc' = "thrown"
                /\ thrown' = r.error
                /\ UNCHANGED result
           ELSE /\ pc' = "done"
                /\ result' = r.data
                /\ UNCHANGED thrown
    /\ UNCHANGED <<schema, searchParams, paramsArray>>

Next == GetAllParamsAsArrays \/ ProcessSchema

Spec == Init /\ [][Next]_vars

(***************************************************************************)
(* What the properties below speak of.                                     *)
(***************************************************************************)
\* the schema description under its top-level optional wrappers
RECURSIVE TopLevel(_)
TopLevel(sch) == IF sch.typeName = "ZodOptional" THEN TopLevel(sch.innerType) ELSE sch

IsShapeSchema == TopLevel(schema).typeName = "ZodObject"
IsUnionSchema == TopLevel(schema).typeName = "ZodUnion"

\* the kind of a field under all its Optional and Default wrappers
RECURSIVE InnerKind(_)
InnerKind(f) ==
    IF f.typeName \in {"ZodOptional", "ZodDefault"} THEN InnerKind(f.innerType) ELSE f

Entries(shape) == {shape[i] : i \in 1..Len(shape)}

\* the shape without the entry of key
Without(shape, key) == SelectSeq(shape, LAMBDA e : e.key # key)

\* the raw parameters without key
Absent(params, key) == [k \in DOMAIN params \ {key} |-> params[k]]

\* the values paired with key in the source, in encounter order
ValuesOf(pairs, key) ==
    LET mine == SelectSeq(pairs, LAMBDA p : p[1] = key)
    IN  [i \in 1..Len(mine) |-> mine[i][2]]

Supplied(e) == e.key \in DOMAIN paramsArray

\* every candidate shape of the schema: the one of a shape schema, the options of a union
CandidateShapes ==
    IF IsShapeSchema THEN <<TopLevel(schema).shape>>
    ELSE IF IsUnionSchema
    THEN [i \in 1..Len(TopLevel(schema).options) |-> TopLevel(schema).options[i].shape]
    ELSE <<>>

Lenient(shape) == parseShape(shape, paramsArray, TRUE)
Strict(shape) == parseShape(shape, paramsArray, FALSE)

\* the candidate's required fields are all keys of its lenient result
Qualifies(shape) ==
    \A e \in Entries(shape) :
        e.schema.typeName \notin {"ZodOptional", "ZodDefault"} => e.key \in DOMAIN Lenient(shape)

\* the strings parseBoolean takes
BooleanLiterals == {<<"t", "r", "u", "e">>, <<"f", "a", "l", "s", "e">>}

\* the raw values cannot be converted to a field of this kind
FieldConversionError(values, kind) ==
    \/ Len(values) > 1 /\ kind.typeName # "ZodArray"
    \/ kind.typeName = "ZodNumber" /\ isNaN(ToNumber(values[1]))
    \/ kind.typeName = "ZodBoolean"
         /\ values[1] \notin BooleanLiterals

\* an optional sign, digits, and an optional fraction
DecimalNumeral(s) ==
    LET body == IF s # <<>> /\ Head(s) \in {"+", "-"} THEN Tail(s) ELSE s
        dots == {i \in 1..Len(body) : body[i] = "."}
    IN  /\ Cardinality(dots) <= 1
        /\ \E i \in 1..Len(body) : body[i] \in DOMAIN DigitValue
        /\ \A i \in 1..Len(body) : body[i] \in DOMAIN DigitValue \cup {"."}

\* the failure of the decode is the one of the Param Collector
CollectorThrew ==
    pc = "thrown" /\ thrown = <<"TypeError: params[key].push is not a function">>

\* the field schema is an Optional or a Default layer
IsWrapper(f) == f.typeName \in {"ZodOptional", "ZodDefault"}

\* the raw values are what a field of this kind takes
WellFormed(values, kind) ==
    CASE kind.typeName = "ZodNumber" -> Len(values) = 1 /\ DecimalNumeral(values[1])
      [] kind.typeName = "ZodBoolean" -> Len(values) = 1 /\ values[1] \in BooleanLiterals
      [] kind.typeName = "ZodString" -> Len(values) = 1
      [] kind.typeName = "ZodArray" ->
           CASE kind.type.typeName = "ZodNumber" ->
                  \A i \in 1..Len(values) : DecimalNumeral(values[i])
             [] kind.type.typeName = "ZodBoolean" ->
                  \A i \in 1..Len(values) : values[i] \in BooleanLiterals
             [] kind.type.typeName = "ZodString" -> TRUE
             [] OTHER -> FALSE
      [] OTHER -> FALSE

\* the conversion of a supplied field that is not Default-wrapped fails
FieldFails(e) ==
    /\ Supplied(e)
    /\ e.schema.typeName # "ZodDefault"
    /\ HasError(convertToRequiredType(paramsArray[e.key], e.schema))

\* no supplied field of the candidate fails conversion, and it qualifies
FullyMatches(shape) ==
    /\ \A e \in Entries(shape) :
           Supplied(e) => ~HasError(convertToRequiredType(paramsArray[e.key], e.schema))
    /\ Qualifies(shape)

(***************************************************************************)
(* C1: decoding against a union returns the lenient result of the first    *)
(* candidate, in declaration order, whose required fields are all keys of  *)
(* that result, and the empty mapping when no candidate qualifies.         *)
(***************************************************************************)
C1_FirstQualifyingCandidate ==
    (pc = "done" /\ IsUnionSchema) =>
        LET qualifying == {i \in 1..Len(CandidateShapes) : Qualifies(CandidateShapes[i])}
        IN  IF qualifying = {} THEN result = EmptyObject
            ELSE result = Lenient(CandidateShapes[
                              CHOOSE i \in qualifying : \A j \in qualifying : i <= j])

\* a union whose first candidate does not qualify and whose second one is returned
C1_Witness ==
    /\ pc = "done"
    /\ IsUnionSchema
    /\ Len(CandidateShapes) >= 2
    /\ ~Qualifies(CandidateShapes[1])
    /\ Qualifies(CandidateShapes[2])
    /\ result # EmptyObject
    /\ result = Lenient(CandidateShapes[2])

(***************************************************************************)
(* C2: decoding against a shape, every Default-wrapped field whose key is  *)
(* absent from the raw parameters is in the result with the declared       *)
(* default value, and every other absent field is omitted.                 *)
(***************************************************************************)
C2_AbsentFieldDefaultOrOmitted ==
    (pc = "done" /\ IsShapeSchema) =>
        \A e \in Entries(CandidateShapes[1]) :
            ~Supplied(e) =>
                IF e.schema.typeName = "ZodDefault"
                THEN e.key \in DOMAIN result /\ result[e.key] = e.schema.defaultValue
                ELSE e.key \notin DOMAIN result

\* shape {a: number, b: default("x")} with a=5 decodes to {a: 5, b: "x"}
C2_Witness ==
    /\ pc = "done"
    /\ schema = ZodObject(<<Field("a", ZodNumber),
                            Field("b", ZodDefault(ZodString, StrV(<<"x">>)))>>)
    /\ searchParams = <<<<"a", <<"5">>>>>>
    /\ result = [a |-> Num(5), b |-> StrV(<<"x">>)]

(***************************************************************************)
(* C4: decoding against a shape, a field with more than one raw value      *)
(* whose inner kind is no array is omitted, and the result is the one of   *)
(* the shape without that field.                                           *)
(***************************************************************************)
C4_MultipleValuesOmitted ==
    (pc = "done" /\ IsShapeSchema) =>
        \A e \in Entries(CandidateShapes[1]) :
            (Supplied(e) /\ Len(paramsArray[e.key]) > 1
                /\ InnerKind(e.schema).typeName # "ZodArray") =>
                /\ e.key \notin DOMAIN result
                /\ result = Strict(Without(CandidateShapes[1], e.key))

\* shape {a: number, b: string} with a=5&a=6&b=abc decodes to {b: "abc"}
C4_Witness ==
    /\ pc = "done"
    /\ schema = ZodObject(<<Field("a", ZodNumber), Field("b", ZodString)>>)
    /\ paramsArray = [a |-> <<<<"5">>, <<"6">>>>, b |-> <<<<"a", "b", "c">>>>]
    /\ result = [b |-> StrV(<<"a", "b", "c">>)]

(***************************************************************************)
(* C3: a Default-wrapped field whose supplied raw values fail conversion   *)
(* (not a number, not a boolean literal, or several values for a kind that *)
(* is no array) is treated as if its key were absent, in both modes, and   *)
(* decoding against a shape gives the field its declared default value.    *)
(***************************************************************************)
C3_MalformedDefaultIsAbsence ==
    (pc = "done") =>
        \A n \in 1..Len(CandidateShapes) :
            \A e \in Entries(CandidateShapes[n]) :
                (/\ e.schema.typeName = "ZodDefault"
                 /\ Supplied(e)
                 /\ FieldConversionError(paramsArray[e.key], InnerKind(e.schema))) =>
                    /\ \A mode \in BOOLEAN :
                           parseShape(CandidateShapes[n], paramsArray, mode)
                             = parseShape(CandidateShapes[n], Absent(paramsArray, e.key), mode)
                    /\ IsShapeSchema =>
                           /\ e.key \in DOMAIN result
                           /\ result[e.key] = e.schema.defaultValue

(***************************************************************************)
(* C5: parseNumber fails with "<s> is NaN" for the empty string and for    *)
(* every string that is no decimal numeral, and a number field supplied    *)
(* with the empty string is not in the result.                             *)
(***************************************************************************)
C5_EmptyStringIsNoNumber ==
    (pc = "done" /\ IsShapeSchema) =>
        /\ \A i \in 1..Len(searchParams) :
               LET s == searchParams[i][2]
               IN  IF DecimalNumeral(s) THEN "data" \in DOMAIN parseNumber(s)
                   ELSE parseNumber(s) = [error |-> s \o <<" is NaN">>]
        /\ \A e \in Entries(CandidateShapes[1]) :
               (/\ InnerKind(e.schema).typeName = "ZodNumber"
                /\ Supplied(e)
                /\ paramsArray[e.key] = <<<<>>>>) =>
                   (e.key \in DOMAIN result => ~IsNumber(result[e.key]))

(***************************************************************************)
(* C6: decoding ends in a failure exactly when the schema, under its       *)
(* top-level optional wrappers, is neither a shape nor a union; for a      *)
(* recognized schema it returns a mapping whatever the raw parameters.     *)
(***************************************************************************)
C6_FailureOnlyForUnrecognizedSchema ==
    /\ pc = "thrown" => ~(IsShapeSchema \/ IsUnionSchema)
    /\ pc = "done" => (IsShapeSchema \/ IsUnionSchema)

(***************************************************************************)
(* C7: the Param Collector never fails, whatever the keys; the keys of     *)
(* the mapping it returns are the keys that occur, and each key holds its  *)
(* values in encounter order.                                              *)
(***************************************************************************)
C7_CollectorTotalAndOrdered ==
    (pc # "start") =>
        /\ ~CollectorThrew
        /\ DOMAIN paramsArray = {searchParams[i][1] : i \in 1..Len(searchParams)}
        /\ \A k \in DOMAIN paramsArray : paramsArray[k] = ValuesOf(searchParams, k)

(***************************************************************************)
(* C8: a field whose kind K lies under several Optional/Default layers is  *)
(* converted by K's rule: a well-formed supplied value is in the result as *)
(* it is for a field of kind K.                                            *)
(***************************************************************************)
C8_NestedWrappersUnwrapped ==
    (pc = "done" /\ IsShapeSchema) =>
        \A e \in Entries(CandidateShapes[1]) :
            (/\ IsWrapper(e.schema)
             /\ IsWrapper(e.schema.innerType)
             /\ Supplied(e)
             /\ WellFormed(paramsArray[e.key], InnerKind(e.schema))) =>
                LET plain == convertToRequiredType(paramsArray[e.key], InnerKind(e.schema)).data
                IN  safeParse(InnerKind(e.schema), plain).success =>
                        /\ e.key \in DOMAIN result
                        /\ result[e.key] = plain

(***************************************************************************)
(* C9: on a conversion failure of a supplied field that is not             *)
(* Default-wrapped the lenient mode returns the empty mapping and the      *)
(* strict mode omits only that field; without such a failure the two modes *)
(* give the same result.                                                   *)
(***************************************************************************)
C9_ModesDifferOnlyOnFailure ==
    (pc = "done") =>
        \A n \in 1..Len(CandidateShapes) :
            LET shape == CandidateShapes[n]
            IN  IF \E e \in Entries(shape) : FieldFails(e)
                THEN /\ Lenient(shape) = EmptyObject
                     /\ \A e \in Entries(shape) :
                            FieldFails(e) => Strict(shape) = Strict(Without(shape, e.key))
                ELSE Lenient(shape) = Strict(shape)

(***************************************************************************)
(* C10: in union resolution a candidate with a failing field is never the  *)
(* accepted one, whatever its required fields: when every candidate before *)
(* a fully matching one has a failing field, the fully matching one is     *)
(* returned.                                                               *)
(***************************************************************************)
C10_FailedCandidateNeverAccepted ==
    (pc = "done" /\ IsUnionSchema) =>
        \A k \in 1..Len(CandidateShapes) :
            (/\ FullyMatches(CandidateShapes[k])
             /\ \A j \in 1..(k - 1) : \E e \in Entries(CandidateShapes[j]) : FieldFails(e)) =>
                result = Lenient(CandidateShapes[k])
====
